---- MODULE Spec2Model ----
(***************************************************************************)
(* Model of the Miri <-> GenMC adapter (MiriGenMCShim) of                  *)
(* genmc-sys/src_cpp/MiriInterface.{hpp,cpp}.                              *)
(*                                                                         *)
(* The adapter's own state (globalInstructions, initVals_, annotation_id,  *)
(* annotation_id_counter) and every handler are translated from the C++    *)
(* source.  The model-checking engine (GenMCDriver) is an external         *)
(* collaborator: the definitions named GenMCDriver_* give the contract the *)
(* adapter relies on (a coherence-maximal write per address, the blocked   *)
(* and finished threads, the labels it was handed).                        *)
(***************************************************************************)
EXTENDS Integers, Sequences, FiniteSets, TLC

(***************************************************************************)
(* Bounds of the exploration.                                              *)
(***************************************************************************)
\* thread ids the driver and the engine range over: 0 .. MaxThreads-1
MaxThreads == 2
\* adapter calls the driver makes before it stops
MaxCalls == 3

(***************************************************************************)
(* 64-bit scalar values (SVal / GenmcScalar.value) as four 16-bit limbs,   *)
(* most significant first, so that wrap-around at 2^64 is computed.        *)
(***************************************************************************)
Limb == 65536

V(n) == <<0, 0, 0, n>>

AddVal(a, b) ==
    LET s4 == a[4] + b[4]
        s3 == a[3] + b[3] + (s4 \div Limb)
        s2 == a[2] + b[2] + (s3 \div Limb)
        s1 == a[1] + b[1] + (s2 \div Limb)
    IN  <<s1 % Limb, s2 % Limb, s3 % Limb, s4 % Limb>>

\* the low `size` bytes of v (size in {1, 2, 4, 8})
TruncVal(v, size) ==
    CASE size = 1 -> <<0, 0, 0, v[4] % 256>>
      [] size = 2 -> <<0, 0, 0, v[4]>>
      [] size = 4 -> <<0, 0, v[3], v[4]>>
      [] OTHER    -> v

SVal0 == V(0)
SVal1 == V(1)
\* 2^64 - 1
SValMax == <<65535, 65535, 65535, 65535>>
\* 0xCC00CC00: initValGetter's answer when no initial value is recorded
NoInitValPlaceholder == <<0, 0, 52224, 52224>>
\* 0xFF00FF00: initValGetter's answer for a recorded, uninitialized value
UninitValPlaceholder == <<0, 0, 65280, 65280>>
\* 0xDEADBEEF: the old value handleMutexUnlock passes with its store
UnlockOldVal == <<0, 0, 57005, 48879>>

\* GenmcScalar: a value with its "is initialized" flag
GenmcScalar(v) == [value |-> v, is_init |-> TRUE]
UninitScalar == [value |-> SVal0, is_init |-> FALSE]
toSVal(g) == g.value

NoEntry == [value |-> SVal0, is_init |-> FALSE, absent |-> TRUE]

(***************************************************************************)
(* Inputs the driver draws from.                                           *)
(***************************************************************************)
MutexAddr == 1
DataAddr == 2
\* data[1] of mutex_simple.c, which no thread but main writes
Data1Addr == 3
Addrs == {MutexAddr, DataAddr, Data1Addr}
\* static uint64_t data[32] of mutex_simple.c: data[i] is at DataAddr + i
ScnDataLen == 32
ScnData(i) == DataAddr + i
ScnAddrs == {MutexAddr} \cup {ScnData(i) : i \in 0 .. (ScnDataLen - 1)}
DataAddrs == {DataAddr}
MutexAddrs == {MutexAddr}
Sizes == {8}
StoreVals == {V(255)}
RhsVals == {V(5)}
ExpectedVals == {V(7), V(255)}
NewVals == {V(9)}
OldVals == {GenmcScalar(SVal0), GenmcScalar(V(7)), UninitScalar}
\* the old values passed along with the two-phase operations
RmwOldVals == {UninitScalar}
\* what an unresolved LoadResult.scalar may hold
JunkVals == {SVal0, V(255)}
Orderings == {"NotAtomic", "Relaxed"}
ActionKinds == {"Load", "NonLoad"}
ThreadIds == 0 .. (MaxThreads - 1)

(***************************************************************************)
(* State.                                                                  *)
(***************************************************************************)
VARIABLES
    globalInstructions,     \* std::vector<Action>: Action of thread t at t+1
    initVals_,              \* Initial-Value Table: address -> GenmcScalar
    annotation_id,          \* Annotation Table: address -> id
    annotation_id_counter,
    coMax,                  \* engine: coherence-maximal label per address
    blocked,                \* engine: blocked threads and what they wait for
    finished,               \* engine: threads whose finish label was added
    labels,                 \* labels submitted to the engine by the last call
    status,                 \* "running", "aborted" (fatal) or "ub"
    ret,                    \* the last call, its inputs and its result
    calls,                  \* driver: adapter calls made so far
    \* the interpreter running tests/genmc/pass/basics/mutex/mutex_simple.c:
    pc,                     \* next instruction of each thread
    curr,                   \* the thread the interpreter runs
    scheduled,              \* curr was chosen by scheduleNext and may step
    tmp,                    \* the value each thread loaded last
    miriMem                 \* the interpreter's own view of memory

vars == <<globalInstructions, initVals_, annotation_id, annotation_id_counter,
          coMax, blocked, finished, labels, status, ret, calls,
          pc, curr, scheduled, tmp, miriMem>>

scn == <<pc, curr, scheduled, tmp, miriMem>>

\* Action(ActionKind, Event(thread, index))
Action(kind, thread, index) == [kind |-> kind, thread |-> thread, index |-> index]

\* Event::getInit() is (0, 0)
InitAction == Action("Load", 0, 0)

InitLabel == [kind |-> "Init", atomic |-> FALSE, val |-> SVal0]

Ret0 ==
    [op |-> "none", thread |-> 0, other |-> 0, addr |-> 0, size |-> 0,
     pre |-> 0, rd |-> "na", obs |-> SVal0, st |-> "na", err |-> FALSE,
     hasValue |-> FALSE, acquired |-> FALSE, success |-> FALSE,
     old |-> SVal0, new |-> SVal0, exp |-> SVal0, rhs |-> SVal0,
     ov |-> <<>>, chosen |-> -1, psize |-> 0, opre |-> 0,
     kind |-> "na", pick |-> [has_value |-> FALSE, value |-> 0], genmcTid |-> -1]

\* The shim together with the engine it owns, as one record.
Shim ==
    [gi |-> globalInstructions, iv |-> initVals_, an |-> annotation_id,
     ac |-> annotation_id_counter, co |-> coMax, blk |-> blocked,
     fin |-> finished, status |-> status,
     \* what this call hands to and gets from the engine
     labs |-> <<>>, ov |-> <<>>, rdv |-> "na", obs |-> SVal0, stv |-> "na"]

Fatal(s) == [s EXCEPT !.status = "aborted"]
Running(s) == s.status = "running"

size_(s) == Len(s.gi)
Index(s, t) == s.gi[t + 1].index

(***************************************************************************)
(* Position Tracker.                                                       *)
(***************************************************************************)
\* a position tracker that advances by two
incPos_byTwo(s, tid) ==
    IF tid >= size_(s) THEN Fatal(s)
    ELSE [s EXCEPT !.gi[tid + 1].index = @ + 2]

incPos(s, tid) ==
    IF tid >= size_(s) THEN Fatal(s)
    ELSE [s EXCEPT !.gi[tid + 1].index = @ + 1]

\* a position tracker that retreats by two
decPos_byTwo(s, tid) ==
    IF tid >= size_(s) THEN Fatal(s)
    ELSE [s EXCEPT !.gi[tid + 1].index = @ - 2]

decPos(s, tid) ==
    IF tid >= size_(s) THEN Fatal(s)
    ELSE [s EXCEPT !.gi[tid + 1].index = @ - 1]

(***************************************************************************)
(* Initial-Value Bridge.                                                   *)
(***************************************************************************)
initValGetter(iv, addr) ==
    IF iv[addr] = NoEntry THEN NoInitValPlaceholder
    ELSE IF ~iv[addr].is_init THEN UninitValPlaceholder
    ELSE toSVal(iv[addr])

\* an insertion that replaces an existing entry (operator[] assignment)
MapInsert_overwrite(iv, addr, value) == [iv EXCEPT ![addr] = value]

\* std::unordered_map::insert: keeps an existing entry
MapInsert(iv, addr, value) ==
    IF iv[addr] = NoEntry THEN [iv EXCEPT ![addr] = value] ELSE iv

\* a setter that rewrites the value of an atomic write as well
handleOldVal_atomicToo(s0, addr, value) ==
    LET coLab == s0.co[addr]
        s == [s0 EXCEPT !.ov = Append(@, [addr |-> addr, value |-> value,
                                          coKind |-> coLab.kind])]
    IN
    IF coLab.kind = "Write" THEN
        IF ~value.is_init THEN s
        ELSE [s EXCEPT !.co[addr].val = toSVal(value)]
    ELSE IF coLab.kind = "Init" THEN
        IF value.is_init THEN [s EXCEPT !.iv = MapInsert(s.iv, addr, value)]
        ELSE s
    ELSE Fatal(s)

\* a setter that takes no action for a label of another kind
handleOldVal_otherIgnored(s0, addr, value) ==
    LET coLab == s0.co[addr]
        s == [s0 EXCEPT !.ov = Append(@, [addr |-> addr, value |-> value,
                                          coKind |-> coLab.kind])]
    IN
    IF coLab.kind = "Write" THEN
        IF ~value.is_init THEN s
        ELSE IF ~coLab.atomic THEN [s EXCEPT !.co[addr].val = toSVal(value)]
        ELSE s
    ELSE IF coLab.kind = "Init" THEN
        IF value.is_init THEN [s EXCEPT !.iv = MapInsert(s.iv, addr, value)]
        ELSE s
    ELSE s

\* a setter that records uninitialized candidates too
handleOldVal_recordsUninit(s0, addr, value) ==
    LET coLab == s0.co[addr]
        s == [s0 EXCEPT !.ov = Append(@, [addr |-> addr, value |-> value,
                                          coKind |-> coLab.kind])]
    IN
    IF coLab.kind = "Write" THEN
        IF ~value.is_init THEN s
        ELSE IF ~coLab.atomic THEN [s EXCEPT !.co[addr].val = toSVal(value)]
        ELSE s
    ELSE IF coLab.kind = "Init" THEN [s EXCEPT !.iv = MapInsert(s.iv, addr, value)]
    ELSE Fatal(s)

handleOldVal(s0, addr, value) ==
    LET coLab == s0.co[addr]
        s == [s0 EXCEPT !.ov = Append(@, [addr |-> addr, value |-> value,
                                          coKind |-> coLab.kind])]
    IN
    IF coLab.kind = "Write" THEN
        IF ~value.is_init THEN s
        ELSE IF ~coLab.atomic THEN [s EXCEPT !.co[addr].val = toSVal(value)]
        ELSE s
    ELSE IF coLab.kind = "Init" THEN
        IF value.is_init THEN
            LET inserted == s.iv[addr] = NoEntry
                iv2 == MapInsert(s.iv, addr, value)
            IN  IF inserted /\ iv2[addr] # value THEN Fatal(s)
                ELSE [s EXCEPT !.iv = iv2]
        ELSE s
    ELSE Fatal(s)

(***************************************************************************)
(* The engine's side of the calls (contract of GenMCDriver).               *)
(***************************************************************************)
Label(kind, t, index, addr, val) ==
    [kind |-> kind, thread |-> t, index |-> index, addr |-> addr, val |-> val]

Submit(s, lab) == [s EXCEPT !.labs = Append(@, lab)]

\* the value a read of addr observes: the coherence-maximal write's value,
\* or the registered initial-value getter's answer if nothing was written
GenMCDriver_readValue(s, addr) ==
    IF s.co[addr].kind = "Init" THEN initValGetter(s.iv, addr)
    ELSE s.co[addr].val

\* GenMCDriver::handleLoad(label, oldValSetter): rd is the engine's verdict
\* ("value", "none" or "error"), junk what an unresolved scalar holds.
GenMCDriver_handleLoad(s, lab, old_val, rd, junk) ==
    LET s1 == handleOldVal(s, lab.addr, old_val)
        val == GenMCDriver_readValue(s1, lab.addr)
        s2 == [Submit(s1, lab) EXCEPT !.rdv = rd,
                                      !.obs = IF rd = "value" THEN val ELSE SVal0]
    IN  IF ~Running(s1) THEN [s |-> s1, error |-> FALSE, has_value |-> FALSE, scalar |-> junk]
        ELSE IF rd = "error" THEN [s |-> s2, error |-> TRUE, has_value |-> FALSE, scalar |-> junk]
        ELSE IF rd = "none" THEN [s |-> s2, error |-> FALSE, has_value |-> FALSE, scalar |-> junk]
        ELSE [s |-> s2, error |-> FALSE, has_value |-> TRUE, scalar |-> val]

Unblock(blk, addr) == {b \in blk : ~(b.why = "lock" /\ b.addr = addr)}

\* GenMCDriver::handleStore(label, oldValSetter): st is "ok" or "error"
GenMCDriver_handleStore(s, lab, atomic, old_val, st) ==
    LET s1 == handleOldVal(s, lab.addr, old_val)
        s2 == [Submit(s1, lab) EXCEPT !.stv = st]
        s3 == [s2 EXCEPT !.co[lab.addr] =
                            [kind |-> "Write", atomic |-> atomic, val |-> lab.val],
                         !.blk = IF lab.kind = "UnlockWrite"
                                 THEN Unblock(@, lab.addr) ELSE @]
    IN  IF ~Running(s1) THEN [s |-> s1, error |-> FALSE, isCoMaxWrite |-> FALSE]
        ELSE IF st = "error" THEN [s |-> s2, error |-> TRUE, isCoMaxWrite |-> FALSE]
        ELSE [s |-> s3, error |-> FALSE, isCoMaxWrite |-> TRUE]

\* GenMCDriver::handleBlock(label)
GenMCDriver_handleBlock(s, lab, why) ==
    [Submit(s, lab) EXCEPT !.blk = @ \cup
        {[thread |-> lab.thread, why |-> why, addr |-> lab.addr]}]

\* GenMCDriver::handleFence, handleMalloc, handleFree: the label joins the graph
GenMCDriver_handleOther(s, lab) == Submit(s, lab)

\* GenMCDriver::handleThreadFinish: the thread is finished, joiners wake up
GenMCDriver_handleThreadFinish(s, lab) ==
    [Submit(s, lab) EXCEPT
        !.fin = @ \cup {lab.thread},
        !.blk = {b \in @ : ~(b.why = "join" /\ b.addr = lab.thread)}]

\* GenMCDriver::handleThreadJoin: a value iff the child has finished;
\* otherwise the parent is blocked until the child finishes
GenMCDriver_handleThreadJoin(s, lab, child) ==
    IF child \in s.fin THEN [s |-> Submit(s, lab), has_value |-> TRUE]
    ELSE [s |-> [Submit(s, lab) EXCEPT !.blk = @ \cup
                    {[thread |-> lab.thread, why |-> "join", addr |-> child]}],
          has_value |-> FALSE]

IsBlocked(blk, t) == \E b \in blk : b.thread = t

\* threads GenMCDriver::scheduleNext may choose
Schedulable(s) ==
    {t \in 0 .. (size_(s) - 1) : ~IsBlocked(s.blk, t) /\ t \notin s.fin}


\* GenMCDriver::handleThreadCreate: the child (re)starts empty and runnable
GenMCDriver_handleThreadCreate(s, lab, child) ==
    [Submit(s, lab) EXCEPT !.fin = @ \ {child},
                           !.blk = {b \in @ : b.thread # child}]

\* GenMCDriver::handleExecutionStart: a fresh graph
GenMCDriver_handleExecutionStart(s) ==
    [s EXCEPT !.co = [a \in DOMAIN s.co |-> InitLabel], !.blk = {}, !.fin = {}]

\* GenMCDriver::handleExecutionEnd(globalInstructions): the engine closes the
\* execution and may report an error; the graph is reset by the next
\* handleExecutionStart
GenMCDriver_handleExecutionEnd(s, verdict) ==
    [s |-> s, error |-> verdict = "error"]

\* executeRMWBinOp(oldVal, rhsVal, size, op) of Support/RMWOps.hpp
executeRMWBinOp(oldVal, rhsVal, size, rmw_op) ==
    IF rmw_op = "Add" THEN TruncVal(AddVal(oldVal, rhsVal), size)
    ELSE rhsVal

(***************************************************************************)
(* Operation Lowering Layer.  Every handler maps the shim record and its   *)
(* inputs (with the engine's verdicts rd, st) to the new record and the    *)
(* result handed back to the interpreter.                                  *)
(***************************************************************************)
LoadResult(s, error, has_value, scalar) ==
    [s |-> s, error |-> error, has_value |-> has_value, scalar |-> scalar]

StoreResult(s, error, isCoMaxWrite) ==
    [s |-> s, error |-> error, isCoMaxWrite |-> isCoMaxWrite]

handleLoad(s, thread_id, address, size, old_val, rd, junk) ==
    LET s1 == incPos(s, thread_id) IN
    IF ~Running(s1) THEN LoadResult(s1, FALSE, FALSE, junk)
    ELSE GenMCDriver_handleLoad(
            s1, Label("Read", thread_id, Index(s1, thread_id), address, SVal0),
            old_val, rd, junk)

WriteLabelKind(store_event_type) ==
    CASE store_event_type = "Normal" -> "Write"
      [] store_event_type = "ReadModifyWrite" -> "FaiWrite"
      [] store_event_type = "CompareExchange" -> "CasWrite"
      [] store_event_type = "MutexUnlockWrite" -> "UnlockWrite"
      [] OTHER -> "Unsupported"

handleStore(s, thread_id, address, size, value, old_val, ord, store_event_type, st) ==
    LET s1 == incPos(s, thread_id)
        kind == WriteLabelKind(store_event_type)
    IN  IF ~Running(s1) THEN StoreResult(s1, FALSE, FALSE)
        ELSE IF kind = "Unsupported" THEN StoreResult(Fatal(s1), FALSE, FALSE)
        ELSE GenMCDriver_handleStore(
                s1, Label(kind, thread_id, Index(s1, thread_id), address, toSVal(value)),
                ord # "NotAtomic", old_val, st)

\* a computation of the new value at the full 8-byte width, whatever the size
rmwNewVal_fullWidth(oldVal, rhsVal, size, rmw_op) ==
    executeRMWBinOp(oldVal, rhsVal, 8, rmw_op)

\* auto newVal = executeRMWBinOp(oldVal, rhsVal, size, rmw_op)
rmwNewVal(oldVal, rhsVal, size, rmw_op) ==
    executeRMWBinOp(oldVal, rhsVal, size, rmw_op)

RMWResult(s, error, old, new, isCoMaxWrite) ==
    [s |-> s, error |-> error, old |-> old, new |-> new,
     isCoMaxWrite |-> isCoMaxWrite]

handleReadModifyWrite(s, thread_id, address, size, store_ordering, rmw_op, rhs_value, old_val, rd, junk, st) ==
    LET s1 == incPos(s, thread_id)
        rhsVal == toSVal(rhs_value)
        result == GenMCDriver_handleLoad(
                    s1, Label("FaiRead", thread_id, Index(s1, thread_id), address, rhsVal),
                    old_val, rd, junk)
        oldVal == result.scalar
        newVal == rmwNewVal(oldVal, rhsVal, size, rmw_op)
        store_result == handleStore(result.s, thread_id, address, size,
                                    GenmcScalar(newVal), old_val, store_ordering,
                                    "ReadModifyWrite", st)
    IN  IF ~Running(s1) THEN RMWResult(s1, FALSE, SVal0, SVal0, FALSE)
        ELSE IF ~Running(result.s) THEN RMWResult(result.s, FALSE, SVal0, SVal0, FALSE)
        ELSE IF result.error THEN RMWResult(result.s, TRUE, SVal0, SVal0, FALSE)
        ELSE IF store_result.error THEN RMWResult(store_result.s, TRUE, SVal0, SVal0, FALSE)
        ELSE RMWResult(store_result.s, FALSE, oldVal, newVal, store_result.isCoMaxWrite)

\* a compare-exchange that takes every observed value for the expected one
casMismatch_never(oldVal, expectedVal) == FALSE

\* oldVal != expectedVal
casMismatch(oldVal, expectedVal) == oldVal # expectedVal

CASResult(s, error, success, old, isCoMaxWrite) ==
    [s |-> s, error |-> error, success |-> success, old |-> old,
     isCoMaxWrite |-> isCoMaxWrite]

handleCompareExchange(s, thread_id, address, size, expected_value, new_value, old_val, success_store_ordering, rd, junk, st) ==
    LET s1 == incPos(s, thread_id)
        expectedVal == toSVal(expected_value)
        newVal == toSVal(new_value)
        result == GenMCDriver_handleLoad(
                    s1, Label("CasRead", thread_id, Index(s1, thread_id), address, newVal),
                    old_val, rd, junk)
        oldVal == result.scalar
        store_result == handleStore(result.s, thread_id, address, size,
                                    GenmcScalar(newVal), old_val,
                                    success_store_ordering, "CompareExchange", st)
    IN  IF ~Running(s1) THEN CASResult(s1, FALSE, FALSE, SVal0, FALSE)
        ELSE IF ~Running(result.s) THEN CASResult(result.s, FALSE, FALSE, SVal0, FALSE)
        ELSE IF result.error THEN CASResult(result.s, TRUE, FALSE, SVal0, FALSE)
        ELSE IF casMismatch(oldVal, expectedVal)
            THEN CASResult(result.s, FALSE, FALSE, oldVal, FALSE)
        ELSE IF store_result.error THEN CASResult(store_result.s, TRUE, FALSE, SVal0, FALSE)
        ELSE CASResult(store_result.s, FALSE, TRUE, oldVal, store_result.isCoMaxWrite)

handleFence(s, thread_id) ==
    LET s1 == incPos(s, thread_id) IN
    IF ~Running(s1) THEN s1
    ELSE GenMCDriver_handleOther(
            s1, Label("Fence", thread_id, Index(s1, thread_id), 0, SVal0))

\* an allocation that hands on whatever address the engine answers
handleMalloc_nullOk(s, thread_id, size, retVal) ==
    LET s1 == incPos(s, thread_id)
        s2 == GenMCDriver_handleOther(
                s1, Label("Malloc", thread_id, Index(s1, thread_id), retVal, SVal0))
    IN  IF size = 0 THEN [s |-> Fatal(s), address |-> 0]
        ELSE IF ~Running(s1) THEN [s |-> s1, address |-> 0]
        ELSE [s |-> s2, address |-> retVal]

\* retVal is the address GenMCDriver::handleMalloc answers
handleMalloc(s, thread_id, size, retVal) ==
    LET s1 == incPos(s, thread_id)
        s2 == GenMCDriver_handleOther(
                s1, Label("Malloc", thread_id, Index(s1, thread_id), retVal, SVal0))
    IN  IF size = 0 THEN [s |-> Fatal(s), address |-> 0]
        ELSE IF ~Running(s1) THEN [s |-> s1, address |-> 0]
        ELSE IF retVal = 0 THEN [s |-> Fatal(s2), address |-> 0]
        ELSE [s |-> s2, address |-> retVal]

handleFree(s, thread_id, address, size) ==
    LET s1 == incPos(s, thread_id) IN
    IF size = 0 THEN Fatal(s)
    ELSE IF address = 0 THEN Fatal(s)
    ELSE IF ~Running(s1) THEN s1
    ELSE GenMCDriver_handleOther(
            s1, Label("Free", thread_id, Index(s1, thread_id), address, SVal0))


(***************************************************************************)
(* Mutex Protocol.                                                         *)
(***************************************************************************)
MutexLockResult(s, is_lock_acquired, error) ==
    [s |-> s, is_lock_acquired |-> is_lock_acquired, error |-> error]

NoAnnot == -1

\* an annotation that takes a fresh id at every Lock
Annotate_fresh(s, address) ==
    [s EXCEPT !.an[address] = s.ac, !.ac = @ + 1]

\* the annotation id of the address, assigned on first use
Annotate(s, address) ==
    IF s.an[address] # NoAnnot THEN s
    ELSE [s EXCEPT !.an[address] = s.ac, !.ac = @ + 1]

\* an access through globalInstructions[thread_id] without a bounds check is
\* undefined for thread_id >= size(): ub names what the build makes of it
Undefined(s, ub) == [s EXCEPT !.status = ub]

\* ++currPos / --currPos on the reference globalInstructions[thread_id].event
PreInc(s, thread_id) == [s EXCEPT !.gi[thread_id + 1].index = @ + 1]
\* a retreat that leaves the position where it is
PreDec_noRetreat(s, thread_id) == s
PreDec(s, thread_id) == [s EXCEPT !.gi[thread_id + 1].index = @ - 1]

\* a lock that always reports the mutex free
is_lock_acquired_always(value) == TRUE

\* loadResult.getValue() == SVal(0)
is_lock_acquired(value) == value = SVal0

\* a failed Lock that submits no block label
lockNotAcquired_noBlock(s, thread_id, address) == s

\* the else branch of handleMutexLock: LockNotAcqBlockLabel at ++currPos
lockNotAcquired(s, thread_id, address) ==
    LET s2 == PreInc(s, thread_id) IN
    GenMCDriver_handleBlock(
        s2, Label("LockNotAcqBlock", thread_id, Index(s2, thread_id), address, SVal0),
        "lock")

handleMutexLock(s, thread_id, address, size, rd, junk, st, ub) ==
    LET s0 == Annotate(s, address)
        s1 == PreInc(s0, thread_id)
        oldVal == GenmcScalar(SVal0)
        loadResult == GenMCDriver_handleLoad(
                        s1, Label("LockCasRead", thread_id, Index(s1, thread_id),
                                  address, SVal0),
                        oldVal, rd, junk)
        is_read_opt == ~loadResult.has_value
        acquired == is_lock_acquired(loadResult.scalar)
        s2 == PreInc(loadResult.s, thread_id)
        storeResult == GenMCDriver_handleStore(
                        s2, Label("LockCasWrite", thread_id, Index(s2, thread_id),
                                  address, SVal1),
                        TRUE, oldVal, st)
    IN  IF thread_id >= size_(s0) THEN MutexLockResult(Undefined(s0, ub), FALSE, FALSE)
        ELSE IF ~Running(loadResult.s) THEN MutexLockResult(loadResult.s, FALSE, FALSE)
        ELSE IF loadResult.error THEN
            MutexLockResult(PreDec(loadResult.s, thread_id), FALSE, TRUE)
        ELSE IF is_read_opt THEN
            MutexLockResult(PreDec(loadResult.s, thread_id), FALSE, FALSE)
        ELSE IF acquired THEN
            IF storeResult.error THEN MutexLockResult(storeResult.s, FALSE, TRUE)
            ELSE MutexLockResult(storeResult.s, acquired, FALSE)
        ELSE MutexLockResult(lockNotAcquired(loadResult.s, thread_id, address),
                             acquired, FALSE)

\* a failed TryLock that blocks the caller the way Lock does
tryLockNotAcquired_block(s, thread_id, address) ==
    lockNotAcquired(s, thread_id, address)

\* "Lock already held": handleMutexTryLock returns with nothing submitted
tryLockNotAcquired(s, thread_id, address) == s

handleMutexTryLock(s, thread_id, address, size, rd, junk, st, ub) ==
    LET s1 == PreInc(s, thread_id)
        oldVal == GenmcScalar(SVal0)
        loadResult == GenMCDriver_handleLoad(
                        s1, Label("TrylockCasRead", thread_id, Index(s1, thread_id),
                                  address, SVal0),
                        oldVal, rd, junk)
        acquired == is_lock_acquired(loadResult.scalar)
        s2 == PreInc(loadResult.s, thread_id)
        storeResult == GenMCDriver_handleStore(
                        s2, Label("TrylockCasWrite", thread_id, Index(s2, thread_id),
                                  address, SVal1),
                        TRUE, oldVal, st)
    IN  IF thread_id >= size_(s) THEN MutexLockResult(Undefined(s, ub), FALSE, FALSE)
        ELSE IF ~Running(loadResult.s) THEN MutexLockResult(loadResult.s, FALSE, FALSE)
        ELSE IF ~loadResult.has_value THEN
            \* fromError(*loadResult.error) reads a null error if none was reported
            IF loadResult.error
            THEN MutexLockResult(PreDec(loadResult.s, thread_id), FALSE, TRUE)
            ELSE MutexLockResult(Undefined(PreDec(loadResult.s, thread_id), ub),
                                 FALSE, FALSE)
        ELSE IF ~acquired THEN
            MutexLockResult(tryLockNotAcquired(loadResult.s, thread_id, address),
                            FALSE, FALSE)
        ELSE IF storeResult.error THEN MutexLockResult(storeResult.s, FALSE, TRUE)
        ELSE MutexLockResult(storeResult.s, TRUE, FALSE)

handleMutexUnlock(s, thread_id, address, size, st) ==
    handleStore(s, thread_id, address, size, GenmcScalar(SVal0),
                GenmcScalar(UnlockOldVal), "Release", "MutexUnlockWrite", st)

(***************************************************************************)
(* Thread Lifecycle Manager.                                               *)
(***************************************************************************)
\* a create that registers whatever child id the engine assigned
handleThreadCreate_unchecked(s, thread_id, parent_id, genmcTid) ==
    LET s1 == incPos(s, parent_id)
        s2 == GenMCDriver_handleThreadCreate(
                s1, Label("ThreadCreate", parent_id, Index(s1, parent_id),
                          thread_id, SVal0), genmcTid)
    IN  IF ~Running(s1) THEN s1
        ELSE IF genmcTid = -1 THEN Fatal(s2)
        ELSE IF genmcTid > size_(s2) THEN Fatal(s2)
        ELSE IF genmcTid >= size_(s2)
        THEN [s2 EXCEPT !.gi = Append(@, Action("Load", genmcTid, 0))]
        ELSE [s2 EXCEPT !.gi[genmcTid + 1] = Action("Load", genmcTid, 0)]

\* genmcTid is the child id the engine's create label carries
handleThreadCreate(s, thread_id, parent_id, genmcTid) ==
    LET s1 == incPos(s, parent_id)
        s2 == GenMCDriver_handleThreadCreate(
                s1, Label("ThreadCreate", parent_id, Index(s1, parent_id),
                          thread_id, SVal0), genmcTid)
    IN  IF ~Running(s1) THEN s1
        ELSE IF genmcTid # thread_id THEN Fatal(s2)
        ELSE IF genmcTid = -1 THEN Fatal(s2)
        ELSE IF genmcTid > size_(s2) THEN Fatal(s2)
        ELSE IF genmcTid >= size_(s2)
        THEN [s2 EXCEPT !.gi = Append(@, Action("Load", genmcTid, 0))]
        ELSE [s2 EXCEPT !.gi[genmcTid + 1] = Action("Load", genmcTid, 0)]

\* a join that keeps the parent's advance when the child has not finished
handleThreadJoin_noRetreat(s, thread_id, child_id) ==
    LET s1 == incPos(s, thread_id)
        res == GenMCDriver_handleThreadJoin(
                s1, Label("ThreadJoin", thread_id, Index(s1, thread_id),
                          child_id, SVal0), child_id)
    IN  IF ~Running(s1) THEN s1 ELSE res.s

handleThreadJoin(s, thread_id, child_id) ==
    LET s1 == incPos(s, thread_id)
        res == GenMCDriver_handleThreadJoin(
                s1, Label("ThreadJoin", thread_id, Index(s1, thread_id),
                          child_id, SVal0), child_id)
    IN  IF ~Running(s1) THEN s1
        ELSE IF res.has_value THEN res.s
        ELSE decPos(res.s, thread_id)

handleThreadFinish(s, thread_id, ret_val) ==
    LET s1 == incPos(s, thread_id) IN
    IF ~Running(s1) THEN s1
    ELSE GenMCDriver_handleThreadFinish(
            s1, Label("ThreadFinish", thread_id, Index(s1, thread_id), 0, ret_val))

handleUserBlock(s, thread_id) ==
    LET s1 == incPos(s, thread_id) IN
    IF ~Running(s1) THEN s1
    ELSE GenMCDriver_handleBlock(
            s1, Label("UserBlock", thread_id, Index(s1, thread_id), 0, SVal0),
            "user")

\* a start that resets every Action in place and keeps the table's size
handleExecutionStart_inPlace(s) ==
    GenMCDriver_handleExecutionStart(
        [s EXCEPT !.gi = [i \in DOMAIN s.gi |-> Action("Load", s.gi[i].thread, 0)]])

handleExecutionStart(s) ==
    GenMCDriver_handleExecutionStart([s EXCEPT !.gi = <<InitAction>>])

handleExecutionEnd(s, verdict) == GenMCDriver_handleExecutionEnd(s, verdict)

(***************************************************************************)
(* Scheduling Bridge.  pick is the engine's choice: a schedulable thread   *)
(* or -1 for none.                                                         *)
(***************************************************************************)
NoThread == [has_value |-> FALSE, value |-> 0]
SomeThread(t) == [has_value |-> TRUE, value |-> t]

\* GenMCDriver::scheduleNext(globalInstructions): any thread that is neither
\* blocked nor finished, or none
GenMCDriver_scheduleNext(s) ==
    {NoThread} \cup {SomeThread(t) : t \in Schedulable(s)}

\* a scheduling query that also advances the current thread's position
scheduleNext_advancing(s, curr_thread_id, curr_thread_next_instr_kind, pick, ub) ==
    IF curr_thread_id >= size_(s)
    THEN [s |-> Undefined(s, ub), result |-> -1]
    ELSE [s |-> [s EXCEPT !.gi[curr_thread_id + 1].kind = curr_thread_next_instr_kind,
                          !.gi[curr_thread_id + 1].index = @ + 1],
          result |-> IF pick.has_value THEN pick.value ELSE -1]

scheduleNext(s, curr_thread_id, curr_thread_next_instr_kind, pick, ub) ==
    IF curr_thread_id >= size_(s)
    THEN [s |-> Undefined(s, ub), result |-> -1]
    ELSE [s |-> [s EXCEPT !.gi[curr_thread_id + 1].kind = curr_thread_next_instr_kind],
          result |-> IF pick.has_value THEN pick.value ELSE -1]


(***************************************************************************)
(* Initial state: MiriGenMCShim's constructor and member initializers.     *)
(***************************************************************************)
(***************************************************************************)
(* tests/genmc/pass/basics/mutex/mutex_simple.c: the program the           *)
(* interpreter runs in the end-to-end specification.                       *)
(***************************************************************************)
ScnThreads == {0, 1, 2}
\* data[i] = 1234
ScnInitData == V(1234)

Instr(op, arg, val) == [op |-> op, arg |-> arg, val |-> val]

\* main: its accesses to the globals lock and data and its pthread calls.
\* An "assert" is a load whose value the program compares with val.
ScnMain ==
    \* for (i < 32) data[i] = 1234;
    [i \in 1 .. ScnDataLen |-> Instr("store", ScnData(i - 1), ScnInitData)]
    \o << Instr("lock", MutexAddr, SVal0) >>
    \* for (i < 32) assert(data[i] == 1234);
    \o [i \in 1 .. ScnDataLen |-> Instr("assert", ScnData(i - 1), ScnInitData)]
    \o << Instr("store", DataAddr, V(0)),
          Instr("store", Data1Addr, V(10)),
          \* assert(data[0] == 0 && data[1] == 10);
          Instr("assert", DataAddr, V(0)),
          Instr("assert", Data1Addr, V(10)),
          Instr("unlock", MutexAddr, SVal0),
          Instr("create", 1, SVal0),
          Instr("create", 2, SVal0),
          Instr("join", 1, SVal0),
          Instr("join", 2, SVal0),
          Instr("lock", MutexAddr, SVal0),
          \* assert(data[1] == 10);
          Instr("assert", Data1Addr, V(10)) >>
    \* for (i = 2; i < 32) assert(data[i] == 1234);
    \o [i \in 1 .. (ScnDataLen - 2) |-> Instr("assert", ScnData(i + 1), ScnInitData)]
    \o << Instr("unlock", MutexAddr, SVal0),
          Instr("finish", 0, SVal0) >>

\* thread_1 (inc = 2) and thread_2 (inc = 4): data[0] += inc under the lock
ScnWorker(inc) ==
    << Instr("lock", MutexAddr, SVal0),
       Instr("load", DataAddr, SVal0),
       Instr("addstore", DataAddr, inc),
       Instr("unlock", MutexAddr, SVal0),
       Instr("finish", 0, SVal0) >>

Prog(t) == IF t = 0 THEN ScnMain ELSE IF t = 1 THEN ScnWorker(V(2)) ELSE ScnWorker(V(4))

Init ==
    /\ globalInstructions = <<InitAction>>
    /\ initVals_ = [a \in Addrs |-> NoEntry]
    /\ annotation_id = [a \in Addrs |-> NoAnnot]
    /\ annotation_id_counter = 0
    /\ coMax = [a \in Addrs |-> InitLabel]
    /\ blocked = {}
    /\ finished = {}
    /\ calls = 0
    /\ labels = <<>>
    /\ status = "running"
    /\ ret = Ret0
    /\ pc = [t \in ScnThreads |-> 1]
    /\ curr = 0
    /\ scheduled = FALSE
    /\ tmp = [t \in ScnThreads |-> SVal0]
    /\ miriMem = [a \in Addrs |-> SVal0]

\* the state after a call: the shim record s and the call's record r
Commit(s, r) ==
    /\ globalInstructions' = s.gi
    /\ initVals_' = s.iv
    /\ annotation_id' = s.an
    /\ annotation_id_counter' = s.ac
    /\ coMax' = s.co
    /\ blocked' = s.blk
    /\ finished' = s.fin
    /\ labels' = s.labs
    /\ status' = s.status
    /\ ret' = [r EXCEPT !.rd = s.rdv, !.obs = s.obs, !.st = s.stv, !.ov = s.ov]

\* the index of thread t before the call (-1 if t has no Action)
PreIndex(t) == IF t < Len(globalInstructions) THEN globalInstructions[t + 1].index ELSE -1

\* the record of a call: its inputs and what the table was before it
Call(op, t, addr) ==
    [Ret0 EXCEPT !.op = op, !.thread = t, !.addr = addr, !.pre = PreIndex(t),
                 !.psize = Len(globalInstructions)]

\* the interpreter only runs threads that are neither blocked nor finished
CanIssue(t) == ~IsBlocked(blocked, t) /\ t \notin finished

Ready == status = "running" /\ calls < MaxCalls

LoadVerdicts == {"value", "none", "error"}
StoreVerdicts == {"ok", "error"}
UBOutcomes == {"aborted", "ub"}

\* the inputs that cannot matter are not enumerated: an unresolved scalar is
\* only read when no value was resolved, an out-of-bounds access only
\* happens for a thread without an Action
JunkFor(rd) == IF rd = "none" THEN JunkVals ELSE {SVal0}
UBFor(t) == IF t >= Len(globalInstructions) THEN UBOutcomes ELSE {"ub"}

(***************************************************************************)
(* One action per public member that changes the adapter's state, inputs   *)
(* and engine verdicts drawn from the sets above.                          *)
(***************************************************************************)
CallHandleLoad ==
    /\ Ready
    /\ \E t \in ThreadIds, a \in DataAddrs, old_val \in OldVals,
          rd \in LoadVerdicts :
        /\ CanIssue(t)
        /\ LET res == handleLoad(Shim, t, a, 8, old_val, rd, SVal0) IN
           Commit(res.s, [Call("Load", t, a) EXCEPT
                            !.err = res.error, !.hasValue = res.has_value,
                            !.old = IF res.has_value THEN res.scalar ELSE SVal0])
    /\ calls' = calls + 1
    /\ UNCHANGED scn

CallHandleStore ==
    /\ Ready
    /\ \E t \in ThreadIds, a \in DataAddrs, v \in StoreVals, old_val \in OldVals,
          ord \in Orderings, st \in StoreVerdicts :
        /\ CanIssue(t)
        /\ LET res == handleStore(Shim, t, a, 8, GenmcScalar(v), old_val, ord,
                                  "Normal", st) IN
           Commit(res.s, [Call("Store", t, a) EXCEPT !.err = res.error, !.new = v])
    /\ calls' = calls + 1
    /\ UNCHANGED scn

CallHandleFence ==
    /\ Ready
    /\ \E t \in ThreadIds :
        /\ CanIssue(t)
        /\ Commit(handleFence(Shim, t), Call("Fence", t, 0))
    /\ calls' = calls + 1
    /\ UNCHANGED scn

CallHandleReadModifyWrite ==
    /\ Ready
    /\ \E t \in ThreadIds, a \in DataAddrs, size \in Sizes, rhs \in RhsVals,
          old_val \in RmwOldVals, rd \in LoadVerdicts, st \in StoreVerdicts :
        \E junk \in JunkFor(rd) :
        /\ CanIssue(t)
        /\ LET res == handleReadModifyWrite(Shim, t, a, size, "Relaxed", "Add",
                                            GenmcScalar(rhs), old_val, rd, junk, st) IN
           Commit(res.s, [Call("ReadModifyWrite", t, a) EXCEPT
                            !.size = size, !.rhs = rhs, !.err = res.error,
                            !.success = Running(res.s) /\ ~res.error,
                            !.old = res.old, !.new = res.new])
    /\ calls' = calls + 1
    /\ UNCHANGED scn

CallHandleCompareExchange ==
    /\ Ready
    /\ \E t \in ThreadIds, a \in DataAddrs, e \in ExpectedVals, v \in NewVals,
          old_val \in RmwOldVals, rd \in LoadVerdicts, st \in StoreVerdicts :
        \E junk \in JunkFor(rd) :
        /\ CanIssue(t)
        /\ LET res == handleCompareExchange(Shim, t, a, 8, GenmcScalar(e),
                                            GenmcScalar(v), old_val, "Relaxed",
                                            rd, junk, st) IN
           Commit(res.s, [Call("CompareExchange", t, a) EXCEPT
                            !.exp = e, !.new = v, !.err = res.error,
                            !.success = res.success, !.old = res.old])
    /\ calls' = calls + 1
    /\ UNCHANGED scn

CallHandleMalloc ==
    /\ Ready
    /\ \E t \in ThreadIds, size \in {0, 8}, retVal \in {0, DataAddr} :
        /\ CanIssue(t)
        /\ LET res == handleMalloc(Shim, t, size, retVal) IN
           Commit(res.s, [Call("Malloc", t, res.address) EXCEPT !.size = size])
    /\ calls' = calls + 1
    /\ UNCHANGED scn

CallHandleFree ==
    /\ Ready
    /\ \E t \in ThreadIds, a \in {0, DataAddr}, size \in {0, 8} :
        /\ CanIssue(t)
        /\ Commit(handleFree(Shim, t, a, size),
                  [Call("Free", t, a) EXCEPT !.size = size])
    /\ calls' = calls + 1
    /\ UNCHANGED scn

CallHandleMutexLock ==
    /\ Ready
    /\ \E t \in ThreadIds, a \in MutexAddrs, rd \in LoadVerdicts,
          st \in StoreVerdicts :
        \E junk \in {SVal0}, ub \in UBFor(t) :
        /\ CanIssue(t)
        /\ LET res == handleMutexLock(Shim, t, a, 8, rd, junk, st, ub) IN
           Commit(res.s, [Call("MutexLock", t, a) EXCEPT
                            !.err = res.error, !.acquired = res.is_lock_acquired])
    /\ calls' = calls + 1
    /\ UNCHANGED scn

CallHandleMutexTryLock ==
    /\ Ready
    /\ \E t \in ThreadIds, a \in MutexAddrs, rd \in LoadVerdicts,
          st \in StoreVerdicts :
        \E junk \in {SVal0}, ub \in UBOutcomes :
        /\ CanIssue(t)
        /\ LET res == handleMutexTryLock(Shim, t, a, 8, rd, junk, st, ub) IN
           Commit(res.s, [Call("MutexTryLock", t, a) EXCEPT
                            !.err = res.error, !.acquired = res.is_lock_acquired])
    /\ calls' = calls + 1
    /\ UNCHANGED scn

CallHandleMutexUnlock ==
    /\ Ready
    /\ \E t \in ThreadIds, a \in MutexAddrs, st \in StoreVerdicts :
        /\ CanIssue(t)
        /\ LET res == handleMutexUnlock(Shim, t, a, 8, st) IN
           Commit(res.s, [Call("MutexUnlock", t, a) EXCEPT !.err = res.error])
    /\ calls' = calls + 1
    /\ UNCHANGED scn

CallHandleThreadCreate ==
    /\ Ready
    /\ \E child \in ThreadIds, parent \in ThreadIds, genmcTid \in ThreadIds :
        /\ CanIssue(parent)
        /\ Commit(handleThreadCreate(Shim, child, parent, genmcTid),
                  [Call("ThreadCreate", parent, 0) EXCEPT
                        !.other = child, !.opre = PreIndex(child),
                        !.genmcTid = genmcTid])
    /\ calls' = calls + 1
    /\ UNCHANGED scn

CallHandleThreadJoin ==
    /\ Ready
    /\ \E t \in ThreadIds, child \in ThreadIds :
        /\ CanIssue(t)
        /\ Commit(handleThreadJoin(Shim, t, child),
                  [Call("ThreadJoin", t, 0) EXCEPT
                        !.other = child, !.opre = PreIndex(child)])
    /\ calls' = calls + 1
    /\ UNCHANGED scn

CallHandleThreadFinish ==
    /\ Ready
    /\ \E t \in ThreadIds :
        /\ CanIssue(t)
        /\ Commit(handleThreadFinish(Shim, t, SVal0), Call("ThreadFinish", t, 0))
    /\ calls' = calls + 1
    /\ UNCHANGED scn

CallHandleUserBlock ==
    /\ Ready
    /\ \E t \in ThreadIds :
        /\ CanIssue(t)
        /\ Commit(handleUserBlock(Shim, t), Call("UserBlock", t, 0))
    /\ calls' = calls + 1
    /\ UNCHANGED scn

CallHandleExecutionStart ==
    /\ Ready
    /\ Commit(handleExecutionStart(Shim), Call("ExecutionStart", 0, 0))
    /\ calls' = calls + 1
    /\ UNCHANGED scn

CallHandleExecutionEnd ==
    /\ Ready
    /\ \E verdict \in StoreVerdicts :
        LET res == handleExecutionEnd(Shim, verdict) IN
        Commit(res.s, [Call("ExecutionEnd", 0, 0) EXCEPT !.err = res.error])
    /\ calls' = calls + 1
    /\ UNCHANGED scn

\* incPos and decPos are public members of the class.  No code of the
\* repository calls them outside a handler and the inbound interface does
\* not list them, so NextInbound leaves them out and Next has them.
CallIncPos ==
    /\ Ready
    /\ \E tid \in ThreadIds :
        Commit(incPos(Shim, tid), Call("incPos", tid, 0))
    /\ calls' = calls + 1
    /\ UNCHANGED scn

CallDecPos ==
    /\ Ready
    /\ \E tid \in ThreadIds :
        Commit(decPos(Shim, tid), Call("decPos", tid, 0))
    /\ calls' = calls + 1
    /\ UNCHANGED scn

CallScheduleNext ==
    /\ Ready
    /\ \E t \in ThreadIds, kind \in ActionKinds,
          pick \in GenMCDriver_scheduleNext(Shim) :
        \E ub \in UBFor(t) :
        LET res == scheduleNext(Shim, t, kind, pick, ub) IN
        Commit(res.s, [Call("scheduleNext", t, 0) EXCEPT
                            !.chosen = res.result, !.kind = kind, !.pick = pick])
    /\ calls' = calls + 1
    /\ UNCHANGED scn

\* every public member of MiriGenMCShim that changes its state
Next ==
    \/ CallHandleLoad
    \/ CallHandleStore
    \/ CallHandleFence
    \/ CallHandleReadModifyWrite
    \/ CallHandleCompareExchange
    \/ CallHandleMalloc
    \/ CallHandleFree
    \/ CallHandleMutexLock
    \/ CallHandleMutexTryLock
    \/ CallHandleMutexUnlock
    \/ CallHandleThreadCreate
    \/ CallHandleThreadJoin
    \/ CallHandleThreadFinish
    \/ CallHandleUserBlock
    \/ CallHandleExecutionStart
    \/ CallHandleExecutionEnd
    \/ CallIncPos
    \/ CallDecPos
    \/ CallScheduleNext

Spec == Init /\ [][Next]_vars

\* the inbound interface: the calls the interpreter makes
NextInbound ==
    \/ CallHandleLoad
    \/ CallHandleStore
    \/ CallHandleFence
    \/ CallHandleReadModifyWrite
    \/ CallHandleCompareExchange
    \/ CallHandleMalloc
    \/ CallHandleFree
    \/ CallHandleMutexLock
    \/ CallHandleMutexTryLock
    \/ CallHandleMutexUnlock
    \/ CallHandleThreadCreate
    \/ CallHandleThreadJoin
    \/ CallHandleThreadFinish
    \/ CallHandleUserBlock
    \/ CallHandleExecutionStart
    \/ CallHandleExecutionEnd
    \/ CallScheduleNext

SpecInbound == Init /\ [][NextInbound]_vars


(***************************************************************************)
(* The end-to-end specification: the interpreter runs mutex_simple.c       *)
(* through the adapter.  Before each instruction it asks scheduleNext for  *)
(* the thread to run; the engine resolves every read to the                *)
(* coherence-maximal value and reports no error.                           *)
(***************************************************************************)
Ended(t) == pc[t] > Len(Prog(t))
\* the position every thread is put at when an assert fails (abort())
ScnAbortPc == [t \in ScnThreads |-> Len(Prog(t)) + 2]
Cur == Prog(curr)[pc[curr]]
CanStep(op) == status = "running" /\ scheduled /\ ~Ended(curr) /\ Cur.op = op
Advance == pc' = [pc EXCEPT ![curr] = @ + 1]

ScnPicks ==
    IF Schedulable(Shim) = {} THEN {NoThread}
    ELSE {SomeThread(t) : t \in Schedulable(Shim)}

ScnSchedule ==
    /\ status = "running"
    /\ ~scheduled
    /\ \E pick \in ScnPicks :
        LET kind == IF ~Ended(curr) /\ Cur.op \in {"load", "assert"}
                    THEN "Load" ELSE "NonLoad"
            res == scheduleNext(Shim, curr, kind, pick, "ub")
        IN  /\ Commit(res.s, [Call("scheduleNext", curr, 0) EXCEPT !.chosen = res.result])
            /\ curr' = IF res.result >= 0 THEN res.result ELSE curr
            /\ scheduled' = (res.result >= 0)
    /\ UNCHANGED <<pc, tmp, miriMem, calls>>

ScnLock ==
    /\ CanStep("lock")
    /\ LET res == handleMutexLock(Shim, curr, Cur.arg, 8, "value", SVal0, "ok", "ub") IN
        /\ Commit(res.s, [Call("MutexLock", curr, Cur.arg) EXCEPT
                            !.err = res.error, !.acquired = res.is_lock_acquired])
        /\ pc' = [pc EXCEPT ![curr] = IF res.is_lock_acquired THEN @ + 1 ELSE @]
    /\ scheduled' = FALSE
    /\ UNCHANGED <<curr, tmp, miriMem, calls>>

ScnUnlock ==
    /\ CanStep("unlock")
    /\ LET res == handleMutexUnlock(Shim, curr, Cur.arg, 8, "ok") IN
        Commit(res.s, [Call("MutexUnlock", curr, Cur.arg) EXCEPT !.err = res.error])
    /\ Advance
    /\ scheduled' = FALSE
    /\ UNCHANGED <<curr, tmp, miriMem, calls>>

ScnLoad ==
    /\ status = "running" /\ scheduled /\ ~Ended(curr)
    /\ Cur.op \in {"load", "assert"}
    /\ LET res == handleLoad(Shim, curr, Cur.arg, 8, GenmcScalar(miriMem[Cur.arg]),
                             "value", SVal0) IN
        /\ Commit(res.s, [Call("Load", curr, Cur.arg) EXCEPT
                            !.err = res.error, !.hasValue = res.has_value,
                            !.old = res.scalar])
        /\ tmp' = [tmp EXCEPT ![curr] = res.scalar]
        /\ IF Cur.op = "assert" /\ res.scalar # Cur.val
           THEN pc' = ScnAbortPc
           ELSE Advance
    /\ scheduled' = FALSE
    /\ UNCHANGED <<curr, miriMem, calls>>

ScnStore ==
    /\ status = "running" /\ scheduled /\ ~Ended(curr)
    /\ Cur.op \in {"store", "addstore"}
    /\ LET v == IF Cur.op = "store" THEN Cur.val ELSE AddVal(tmp[curr], Cur.val)
           res == handleStore(Shim, curr, Cur.arg, 8, GenmcScalar(v),
                              GenmcScalar(miriMem[Cur.arg]), "NotAtomic", "Normal", "ok")
       IN /\ Commit(res.s, [Call("Store", curr, Cur.arg) EXCEPT !.err = res.error, !.new = v])
          /\ miriMem' = [miriMem EXCEPT ![Cur.arg] = v]
    /\ Advance
    /\ scheduled' = FALSE
    /\ UNCHANGED <<curr, tmp, calls>>

ScnCreate ==
    /\ CanStep("create")
    /\ Commit(handleThreadCreate(Shim, Cur.arg, curr, Len(globalInstructions)),
              [Call("ThreadCreate", curr, 0) EXCEPT !.other = Cur.arg])
    /\ Advance
    /\ scheduled' = FALSE
    /\ UNCHANGED <<curr, tmp, miriMem, calls>>

ScnJoin ==
    /\ CanStep("join")
    /\ Commit(handleThreadJoin(Shim, curr, Cur.arg),
              [Call("ThreadJoin", curr, 0) EXCEPT !.other = Cur.arg])
    /\ pc' = [pc EXCEPT ![curr] = IF Cur.arg \in finished THEN @ + 1 ELSE @]
    /\ scheduled' = FALSE
    /\ UNCHANGED <<curr, tmp, miriMem, calls>>

ScnFinish ==
    /\ CanStep("finish")
    /\ Commit(handleThreadFinish(Shim, curr, SVal0), Call("ThreadFinish", curr, 0))
    /\ Advance
    /\ scheduled' = FALSE
    /\ UNCHANGED <<curr, tmp, miriMem, calls>>

NextMutexSimple ==
    \/ ScnSchedule
    \/ ScnLock
    \/ ScnUnlock
    \/ ScnLoad
    \/ ScnStore
    \/ ScnCreate
    \/ ScnJoin
    \/ ScnFinish

\* the shim as constructed, over the addresses of mutex_simple.c; the
\* program's statics (lock, data) start zeroed
InitMutexSimple ==
    /\ globalInstructions = <<InitAction>>
    /\ initVals_ = [a \in ScnAddrs |-> NoEntry]
    /\ annotation_id = [a \in ScnAddrs |-> NoAnnot]
    /\ annotation_id_counter = 0
    /\ coMax = [a \in ScnAddrs |-> InitLabel]
    /\ blocked = {}
    /\ finished = {}
    /\ calls = 0
    /\ labels = <<>>
    /\ status = "running"
    /\ ret = Ret0
    /\ pc = [t \in ScnThreads |-> 1]
    /\ curr = 0
    /\ scheduled = FALSE
    /\ tmp = [t \in ScnThreads |-> SVal0]
    /\ miriMem = [a \in ScnAddrs |-> SVal0]

SpecMutexSimple == InitMutexSimple /\ [][NextMutexSimple]_vars

\* a thread is between a Lock that reported acquired and its Unlock
Holding(t) == ~Ended(t) /\ \E i \in 1 .. (pc[t] - 1) :
                /\ Prog(t)[i].op = "lock"
                /\ \A j \in i .. (pc[t] - 1) : Prog(t)[j].op # "unlock"

\* every thread has run to its end (no assert failed)
AllDone == \A t \in ScnThreads : pc[t] = Len(Prog(t)) + 1


(***************************************************************************)
(* Properties of the end-to-end run (SpecMutexSimple).                     *)
(***************************************************************************)
Holders == {t \in ScnThreads : Holding(t)}

\* the mutex at addr is Locked: its coherence-maximal write is nonzero
Locked(addr) == coMax[addr].kind = "Write" /\ coMax[addr].val # SVal0

\* C1: in the run of mutex_simple.c no interleaving reaches a state in which
\* two threads have both been reported acquired=true for the mutex with no
\* Unlock in between: at most one thread is between its Lock and its Unlock.
C1_MutualExclusion == Cardinality(Holders) <= 1

\* C1 witness: one worker holds the mutex while the other worker's Lock was
\* refused and left it blocked.
C1_Witness ==
    \E t \in {1, 2}, u \in {1, 2} :
        t # u /\ Holding(t) /\ pc[t] > 2 /\ IsBlocked(blocked, u)

\* C2: every interleaving that runs all threads of mutex_simple.c to the end
\* leaves the counter data[0] at its starting value 0 plus 2 plus 4, and
\* data[1], which neither worker writes, at 10 (in the engine's graph and in
\* the interpreter's memory alike).
C2_FinalCounter ==
    AllDone =>
        /\ coMax[DataAddr].val = V(6)
        /\ miriMem[DataAddr] = V(6)
        /\ coMax[Data1Addr].val = V(10)
        /\ miriMem[Data1Addr] = V(10)

\* C2 witness: the run is complete, both workers having gone through their
\* critical sections.
C2_Witness == AllDone /\ finished = ScnThreads /\ status = "running"

\* C3: a Lock on the mutex while no other thread holds it reports
\* acquired=true and leaves the mutex Locked; a Lock by another thread while
\* it is held reports acquired=false and blocks the caller; a blocked thread
\* is never the one scheduleNext answers, and it stays blocked until an
\* Unlock call on the same address.
C3_LockOutcome ==
    ret.op = "MutexLock" =>
        IF Holders \ {ret.thread} = {}
        THEN ret.acquired /\ ~ret.err /\ Locked(ret.addr) /\ Holding(ret.thread)
        ELSE ~ret.acquired /\ ~ret.err /\ Locked(ret.addr)
             /\ [thread |-> ret.thread, why |-> "lock", addr |-> ret.addr] \in blocked

C3_NotScheduled ==
    (ret.op = "scheduleNext" /\ ret.chosen >= 0) => ~IsBlocked(blocked, ret.chosen)

C3_UntilUnlock ==
    \A b \in blocked :
        (b.why = "lock" /\ b \notin blocked')
            => (ret'.op = "MutexUnlock" /\ ret'.addr = b.addr)

C3_LockProtocol ==
    /\ [](C3_LockOutcome /\ C3_NotScheduled)
    /\ [][C3_UntilUnlock]_vars

\* C3 witness: a thread's Lock was just refused while another thread holds
\* the mutex, and the refused thread is blocked on that address.
C3_Witness ==
    /\ ret.op = "MutexLock" /\ ~ret.acquired
    /\ Holders \ {ret.thread} # {}
    /\ IsBlocked(blocked, ret.thread)


(***************************************************************************)
(* Read-modify-write arithmetic: the initial thread stores to and adds to  *)
(* one location, at every access size and with values next to the         *)
(* wrap-around of each size; the engine resolves every read and accepts    *)
(* every store.                                                            *)
(***************************************************************************)
RMWSizes == {1, 2, 4, 8}
RMWRhsVals == {V(1), V(5)}
\* 0xFD, 0xFFFFFFFE, 2^64 - 1
RMWWideVals == {V(253), <<0, 0, 65535, 65534>>, SValMax}

RMWStore ==
    /\ Ready
    /\ \E v \in RMWWideVals, size \in RMWSizes :
        LET res == handleStore(Shim, 0, DataAddr, size, GenmcScalar(v),
                               GenmcScalar(SVal0), "Relaxed", "Normal", "ok") IN
        Commit(res.s, [Call("Store", 0, DataAddr) EXCEPT
                            !.size = size, !.err = res.error, !.new = v])
    /\ calls' = calls + 1
    /\ UNCHANGED scn

RMWAdd ==
    /\ Ready
    /\ \E size \in RMWSizes, rhs \in RMWRhsVals, old \in RMWWideVals :
        LET res == handleReadModifyWrite(Shim, 0, DataAddr, size, "Relaxed", "Add",
                                         GenmcScalar(rhs), GenmcScalar(old),
                                         "value", SVal0, "ok") IN
        Commit(res.s, [Call("ReadModifyWrite", 0, DataAddr) EXCEPT
                            !.size = size, !.rhs = rhs, !.err = res.error,
                            !.success = Running(res.s) /\ ~res.error,
                            !.old = res.old, !.new = res.new])
    /\ calls' = calls + 1
    /\ UNCHANGED scn

NextRMW == RMWStore \/ RMWAdd

SpecRMW == Init /\ [][NextRMW]_vars

(***************************************************************************)
(* The old-value setter on its own: handleOldVal applied, for one address, *)
(* to every kind of coherence-maximal label the engine may hand out (the   *)
(* initializing label, a non-atomic or atomic write, a label of another    *)
(* kind), with and without a recorded initial value.                       *)
(***************************************************************************)
OldValCoLabels ==
    {InitLabel,
     [kind |-> "Write", atomic |-> FALSE, val |-> V(255)],
     [kind |-> "Write", atomic |-> TRUE, val |-> V(255)],
     [kind |-> "Other", atomic |-> FALSE, val |-> SVal0]}
OldValEntries == {NoEntry, GenmcScalar(SVal0), GenmcScalar(V(7))}

InitOldVal ==
    /\ globalInstructions = <<InitAction>>
    /\ \E e \in OldValEntries :
        initVals_ = [a \in Addrs |-> IF a = DataAddr THEN e ELSE NoEntry]
    /\ annotation_id = [a \in Addrs |-> NoAnnot]
    /\ annotation_id_counter = 0
    /\ \E lab \in OldValCoLabels :
        coMax = [a \in Addrs |-> IF a = DataAddr THEN lab ELSE InitLabel]
    /\ blocked = {}
    /\ finished = {}
    /\ calls = 0
    /\ labels = <<>>
    /\ status = "running"
    /\ ret = Ret0
    /\ pc = [t \in ScnThreads |-> 1]
    /\ curr = 0
    /\ scheduled = FALSE
    /\ tmp = [t \in ScnThreads |-> SVal0]
    /\ miriMem = [a \in Addrs |-> SVal0]

SupplyOldValue ==
    /\ Ready
    /\ \E candidate \in OldVals :
        Commit(handleOldVal(Shim, DataAddr, candidate),
               [Call("handleOldVal", 0, DataAddr) EXCEPT
                    !.old = candidate.value, !.hasValue = candidate.is_init,
                    !.exp = coMax[DataAddr].val, !.kind = coMax[DataAddr].kind])
    /\ calls' = calls + 1
    /\ UNCHANGED scn

NextOldVal == SupplyOldValue

SpecOldVal == InitOldVal /\ [][NextOldVal]_vars

(***************************************************************************)
(* Mutex traffic only: registered threads issue Lock, TryLock and Unlock   *)
(* on two mutex addresses that nothing else accesses, threads are created  *)
(* and runs restarted; the engine resolves every read and accepts every    *)
(* store.                                                                  *)
(***************************************************************************)
MutexOpsAddrs == {MutexAddr, DataAddr}

MutexOpsLock ==
    /\ Ready
    /\ \E t \in ThreadIds, a \in MutexOpsAddrs :
        /\ t < Len(globalInstructions) /\ CanIssue(t)
        /\ LET res == handleMutexLock(Shim, t, a, 8, "value", SVal0, "ok", "ub") IN
           Commit(res.s, [Call("MutexLock", t, a) EXCEPT
                            !.err = res.error, !.acquired = res.is_lock_acquired])
    /\ calls' = calls + 1
    /\ UNCHANGED scn

MutexOpsTryLock ==
    /\ Ready
    /\ \E t \in ThreadIds, a \in MutexOpsAddrs :
        /\ t < Len(globalInstructions) /\ CanIssue(t)
        /\ LET res == handleMutexTryLock(Shim, t, a, 8, "value", SVal0, "ok", "ub") IN
           Commit(res.s, [Call("MutexTryLock", t, a) EXCEPT
                            !.err = res.error, !.acquired = res.is_lock_acquired])
    /\ calls' = calls + 1
    /\ UNCHANGED scn

MutexOpsUnlock ==
    /\ Ready
    /\ \E t \in ThreadIds, a \in MutexOpsAddrs :
        /\ t < Len(globalInstructions) /\ CanIssue(t)
        /\ LET res == handleMutexUnlock(Shim, t, a, 8, "ok") IN
           Commit(res.s, [Call("MutexUnlock", t, a) EXCEPT !.err = res.error])
    /\ calls' = calls + 1
    /\ UNCHANGED scn

MutexOpsCreate ==
    /\ Ready
    /\ Len(globalInstructions) < MaxThreads
    /\ CanIssue(0)
    /\ LET child == Len(globalInstructions) IN
       Commit(handleThreadCreate(Shim, child, 0, child),
              [Call("ThreadCreate", 0, 0) EXCEPT
                    !.other = child, !.opre = PreIndex(child), !.genmcTid = child])
    /\ calls' = calls + 1
    /\ UNCHANGED scn

MutexOpsExecutionStart ==
    /\ Ready
    /\ Commit(handleExecutionStart(Shim), Call("ExecutionStart", 0, 0))
    /\ calls' = calls + 1
    /\ UNCHANGED scn

NextMutexOps ==
    \/ MutexOpsLock
    \/ MutexOpsTryLock
    \/ MutexOpsUnlock
    \/ MutexOpsCreate
    \/ MutexOpsExecutionStart

SpecMutexOps == Init /\ [][NextMutexOps]_vars

(***************************************************************************)
(* Properties of the adapter under arbitrary call sequences (Spec).        *)
(***************************************************************************)
Registered(gi, t) == t < Len(gi)
IdxOf(gi, t) == gi[t + 1].index

\* the labels C4 speaks of: load, store, fence, allocation, free,
\* thread-create, finish, user block
ListedKinds ==
    {"Read", "Write", "FaiRead", "FaiWrite", "CasRead", "CasWrite", "UnlockWrite",
     "Fence", "Malloc", "Free", "ThreadCreate", "ThreadFinish", "UserBlock"}

\* the step is a call that committed only labels of the listed kinds
CommitsListed ==
    /\ status' = "running"
    /\ labels' # <<>>
    /\ \A i \in DOMAIN labels' : labels'[i].kind \in ListedKinds

\* the call of this step replaced u's Action by a fresh one
ResetBy(u) ==
    \/ ret'.op = "ExecutionStart"
    \/ ret'.op = "ThreadCreate" /\ ret'.other = u

\* C4 as stated, over the calls of the inbound interface: every committed
\* label of the listed kinds raises its
\* thread's index by exactly one (the k-th label of a call sits at the old
\* index plus k) and no other thread's index changes; and no call lowers a
\* thread's index, so that committed indexes increase and are never reused.
C4_StepOriginal ==
    /\ CommitsListed =>
        LET t == labels'[1].thread IN
        /\ \A i \in DOMAIN labels' :
                labels'[i].index = IdxOf(globalInstructions, t) + i
        /\ IdxOf(globalInstructions', t)
                = IdxOf(globalInstructions, t) + Len(labels')
        /\ \A u \in ThreadIds :
                (u # t /\ Registered(globalInstructions, u)) =>
                    /\ Registered(globalInstructions', u)
                    /\ IdxOf(globalInstructions', u) = IdxOf(globalInstructions, u)
    /\ status' = "running" =>
        \A u \in ThreadIds :
            (Registered(globalInstructions, u) /\ Registered(globalInstructions', u))
                => IdxOf(globalInstructions', u) >= IdxOf(globalInstructions, u)

C4_Original == [][C4_StepOriginal]_vars

\* C4 amended, over the calls of the inbound interface: every committed
\* label of the listed kinds sits one above the
\* previous position of its thread t and raises t's index by one; no other
\* thread's index changes, except that thread-create leaves the child's
\* Action at index zero (appended, or reset: the parent's own if the child
\* is the parent).  No call lowers a thread's index other than
\* handleExecutionStart and a create naming that thread as the child, so
\* between two such resets the committed indexes of a thread increase
\* strictly and none is used twice.
C4_StepAmended ==
    /\ CommitsListed =>
        LET t == labels'[1].thread IN
        /\ \A i \in DOMAIN labels' :
                labels'[i].index = IdxOf(globalInstructions, t) + i
        /\ \A u \in ThreadIds :
                Registered(globalInstructions, u) =>
                    /\ Registered(globalInstructions', u)
                    /\ IdxOf(globalInstructions', u) =
                          IF ResetBy(u) THEN 0
                          ELSE IF u = t
                               THEN IdxOf(globalInstructions, t) + Len(labels')
                               ELSE IdxOf(globalInstructions, u)
    /\ status' = "running" =>
        \A u \in ThreadIds :
            (Registered(globalInstructions, u) /\ Registered(globalInstructions', u)
                /\ ~ResetBy(u))
                => IdxOf(globalInstructions', u) >= IdxOf(globalInstructions, u)

C4_Amended == [][C4_StepAmended]_vars

\* C4 witness: a create by one thread has just reset the Action of another,
\* already registered thread whose index was above zero.
C4_Witness ==
    /\ ret.op = "ThreadCreate" /\ status = "running"
    /\ ret.other # ret.thread
    /\ ret.other < ret.psize
    /\ ret.opre > 0
    /\ IdxOf(globalInstructions, ret.other) = 0
    /\ IdxOf(globalInstructions, ret.thread) = ret.pre + 1

MemoryOps ==
    {"Load", "Store", "ReadModifyWrite", "CompareExchange",
     "MutexLock", "MutexTryLock", "MutexUnlock"}

\* C5 as stated: whenever a load, store, RMW, CAS or mutex operation returns
\* an engine-reported error, the issuing thread's index is what it was
\* before the call.
C5_ErrorUnwinds ==
    (ret.op \in MemoryOps /\ ret.err /\ status = "running")
        => IdxOf(globalInstructions, ret.thread) = ret.pre

WriteKinds ==
    {"Write", "FaiWrite", "CasWrite", "UnlockWrite", "LockCasWrite", "TrylockCasWrite"}
BlockKinds == {"LockNotAcqBlock", "UserBlock"}

KindsOf(labs) == {labs[i].kind : i \in DOMAIN labs}

\* C6: a TryLock whose read observes a nonzero value reports acquired=false
\* and no error, submits its read label only (no write, no block label), and
\* leaves the caller schedulable.
C6_TryLockHeld ==
    (ret.op = "MutexTryLock" /\ ret.rd = "value" /\ ret.obs # SVal0) =>
        /\ status = "running"
        /\ ~ret.acquired /\ ~ret.err
        /\ Len(labels) = 1 /\ labels[1].kind = "TrylockCasRead"
        /\ KindsOf(labels) \cap (WriteKinds \cup BlockKinds) = {}
        /\ ~IsBlocked(blocked, ret.thread)
        /\ ret.thread \in Schedulable(Shim)

\* C6 witness: a TryLock has just found the mutex Locked by an earlier
\* acquisition.
C6_Witness ==
    /\ ret.op = "MutexTryLock" /\ ret.rd = "value" /\ ret.obs = SVal1
    /\ Locked(ret.addr)

\* C7: a compare-exchange whose read observes O: if O equals the expected
\* value, exactly one store, of the new value, follows the read, and the
\* result (the store not failing) is success with old = O; if O differs, no
\* store is issued and the result is failure with old = O.
C7_CompareExchange ==
    (ret.op = "CompareExchange" /\ ret.rd = "value" /\ status = "running") =>
        IF ret.obs = ret.exp
        THEN /\ Len(labels) = 2
             /\ labels[1].kind = "CasRead" /\ labels[1].index = ret.pre + 1
             /\ labels[2].kind = "CasWrite" /\ labels[2].index = ret.pre + 2
             /\ labels[2].val = ret.new /\ labels[2].addr = ret.addr
             /\ ret.st = "ok" => (ret.success /\ ~ret.err /\ ret.old = ret.obs)
             /\ ret.st = "error" => (ret.err /\ ~ret.success)
        ELSE /\ Len(labels) = 1 /\ labels[1].kind = "CasRead"
             /\ ~ret.success /\ ~ret.err /\ ret.old = ret.obs

\* C7 witness: a compare-exchange has just succeeded on a matching value.
C7_Witness ==
    /\ ret.op = "CompareExchange" /\ ret.rd = "value" /\ ret.obs = ret.exp
    /\ ret.success /\ coMax[ret.addr].val = ret.new

\* C9 as stated: a read-modify-write whose read reported an error or
\* resolved no value submits no write label and reports no (old, new) result.
C9_NoStoreAfterFailedRead ==
    (ret.op = "ReadModifyWrite" /\ ret.rd \in {"none", "error"}) =>
        /\ KindsOf(labels) \cap WriteKinds = {}
        /\ ~ret.success

\* C10: once the Initial-Value Table holds a value for an address, the
\* initial-value getter answers that value after every later call.
C10_StepKeepsInitVal ==
    \A a \in Addrs :
        initVals_[a] # NoEntry =>
            /\ initVals_'[a] # NoEntry
            /\ initValGetter(initVals_', a) = initValGetter(initVals_, a)

C10_InitValStable == [][C10_StepKeepsInitVal]_vars

\* C10 witness: the last call supplied, for an address whose
\* coherence-maximal event is the initializing one, an initialized candidate
\* other than the value the table holds.
C10_Witness ==
    \E i \in DOMAIN ret.ov :
        /\ ret.ov[i].coKind = "Init" /\ ret.ov[i].value.is_init
        /\ initVals_[ret.ov[i].addr] # NoEntry
        /\ initVals_[ret.ov[i].addr] # ret.ov[i].value


(***************************************************************************)
(* Read-modify-write arithmetic (SpecRMW).                                 *)
(***************************************************************************)
\* w + 1 on 64 bits, by carry through the limbs
Inc(w) ==
    IF w[4] < Limb - 1 THEN <<w[1], w[2], w[3], w[4] + 1>>
    ELSE IF w[3] < Limb - 1 THEN <<w[1], w[2], w[3] + 1, 0>>
    ELSE IF w[2] < Limb - 1 THEN <<w[1], w[2] + 1, 0, 0>>
    ELSE IF w[1] < Limb - 1 THEN <<w[1] + 1, 0, 0, 0>>
    ELSE SVal0

\* (v + n) mod 2^(8*size), by counting up n times from v mod 2^(8*size)
RECURSIVE WrapAdd(_, _, _)
WrapAdd(v, n, size) ==
    IF n = 0 THEN TruncVal(v, size)
    ELSE TruncVal(Inc(WrapAdd(v, n - 1, size)), size)

\* C8: a read-modify-write with operator ADD, size s and right-hand value r
\* whose read observes v stores and reports (v + r) mod 2^(8*s) as the new
\* value and reports v as the old value.
C8_AddWraps ==
    (ret.op = "ReadModifyWrite" /\ ret.rd = "value" /\ ret.st = "ok"
        /\ status = "running") =>
        /\ ret.success /\ ~ret.err
        /\ ret.old = ret.obs
        /\ ret.new = WrapAdd(ret.obs, ret.rhs[4], ret.size)
        /\ Len(labels) = 2 /\ labels[2].kind = "FaiWrite"
        /\ labels[2].val = ret.new
        /\ coMax[ret.addr].val = ret.new

\* C8 witness: an 8-byte add of 5 has just wrapped around 2^64, over the
\* value 2^64 - 1 that an earlier store wrote.
C8_Witness ==
    /\ ret.op = "ReadModifyWrite" /\ ret.size = 8 /\ ret.rhs = V(5)
    /\ ret.obs = SValMax /\ ret.new = V(4)
    /\ initVals_[DataAddr].value # SValMax


(***************************************************************************)
(* Error handling of the Initial-Value Bridge and the Position Tracker.    *)
(***************************************************************************)
\* the call just made supplied, for an address whose coherence-maximal event
\* is the initializing one, an initialized candidate differing from the value
\* the table holds
ConflictingCandidate ==
    \E i \in DOMAIN ret.ov :
        /\ ret.ov[i].coKind = "Init" /\ ret.ov[i].value.is_init
        /\ initVals_[ret.ov[i].addr] # NoEntry
        /\ initVals_[ret.ov[i].addr] # ret.ov[i].value

\* C11 as stated: supplying an initialized candidate that differs from the
\* recorded initial value of an address whose coherence-maximal event is the
\* initializing one aborts the run.
C11_ConflictAborts == ConflictingCandidate => status = "aborted"

\* the entry points that take the id of the thread they act for
ThreadOps ==
    {"Load", "Store", "Fence", "ReadModifyWrite", "CompareExchange", "Malloc",
     "Free", "MutexLock", "MutexTryLock", "MutexUnlock", "ThreadCreate",
     "ThreadJoin", "ThreadFinish", "UserBlock", "scheduleNext"}

\* C12 as stated: every operation naming a thread id without a registered
\* Action (id >= size of the Action table) aborts with a fatal error.
C12_UnregisteredAborts ==
    (ret.op \in ThreadOps /\ ret.thread >= ret.psize) => status = "aborted"


(***************************************************************************)
(* Scheduling Bridge and Thread Lifecycle Manager.                         *)
(***************************************************************************)
\* C13: scheduleNext(current_thread, kind), for a current thread with an
\* Action, changes no thread's event position and no instruction-kind hint
\* other than current_thread's (which becomes kind), leaves the
\* Initial-Value Table, the Annotation Table and the size of the Action
\* table unchanged, submits nothing, and returns the thread the engine chose,
\* or -1 exactly when the engine chose none.
C13_StepScheduleNext ==
    (ret'.op = "scheduleNext" /\ ret'.thread < Len(globalInstructions)) =>
        /\ status' = status
        /\ Len(globalInstructions') = Len(globalInstructions)
        /\ \A u \in ThreadIds :
            Registered(globalInstructions, u) =>
                /\ IdxOf(globalInstructions', u) = IdxOf(globalInstructions, u)
                /\ globalInstructions'[u + 1].thread = globalInstructions[u + 1].thread
                /\ globalInstructions'[u + 1].kind =
                        IF u = ret'.thread THEN ret'.kind
                        ELSE globalInstructions[u + 1].kind
        /\ initVals_' = initVals_
        /\ annotation_id' = annotation_id
        /\ annotation_id_counter' = annotation_id_counter
        /\ labels' = <<>>
        /\ ret'.pick \in GenMCDriver_scheduleNext(Shim)
        /\ ret'.chosen = -1 <=> ~ret'.pick.has_value
        /\ ret'.pick.has_value => ret'.chosen = ret'.pick.value

C13_ScheduleNextFrame == [][C13_StepScheduleNext]_vars

\* C13 witness: after some thread has advanced, a scheduling query on behalf
\* of one thread has changed that thread's hint and returned another thread.
C13_Witness ==
    /\ ret.op = "scheduleNext" /\ status = "running"
    /\ ret.chosen # -1 /\ ret.chosen # ret.thread
    /\ ret.kind = "NonLoad"
    /\ globalInstructions[ret.thread + 1].kind = "NonLoad"
    /\ \E u \in ThreadIds :
        Registered(globalInstructions, u) /\ IdxOf(globalInstructions, u) > 0

\* C14: Join(parent, child): if the engine resolves no value (the child has
\* not finished) the parent's index after the call is its index before the
\* call; otherwise the join label sits one above and the parent's index is
\* advanced by exactly one; either way the child's index is unchanged.
C14_Join ==
    (ret.op = "ThreadJoin" /\ status = "running") =>
        /\ Len(labels) = 1 /\ labels[1].kind = "ThreadJoin"
        /\ labels[1].thread = ret.thread /\ labels[1].index = ret.pre + 1
        /\ IdxOf(globalInstructions, ret.thread) =
                IF ret.other \in finished THEN ret.pre + 1 ELSE ret.pre
        /\ (ret.other # ret.thread /\ Registered(globalInstructions, ret.other))
                => IdxOf(globalInstructions, ret.other) = ret.opre
        /\ Len(globalInstructions) = ret.psize

\* C14 witness: a join on a registered, unfinished child has just been
\* retreated, by a parent that had advanced before.
C14_Witness ==
    /\ ret.op = "ThreadJoin" /\ status = "running"
    /\ ret.other # ret.thread /\ Registered(globalInstructions, ret.other)
    /\ ret.other \notin finished
    /\ ret.pre > 0
    /\ IdxOf(globalInstructions, ret.thread) = ret.pre


\* C15: Create(child, parent) by a registered parent commits the create
\* label one above the parent's position, the parent's index ending one
\* higher (unless the parent is itself the child being reset); it aborts
\* fatally if the engine-assigned child id differs from the supplied one (or
\* lies beyond the end of the table); otherwise the child is registered with
\* an Action at position zero, appended or reset, and every other thread's
\* Action is unchanged.
C15_StepCreate ==
    (ret'.op = "ThreadCreate" /\ ret'.thread < Len(globalInstructions)) =>
        LET parent == ret'.thread
            child == ret'.other
            size == Len(globalInstructions)
        IN
        /\ Len(labels') = 1 /\ labels'[1].kind = "ThreadCreate"
        /\ labels'[1].thread = parent
        /\ labels'[1].index = IdxOf(globalInstructions, parent) + 1
        /\ ret'.genmcTid # child => status' = "aborted"
        /\ status' = "aborted" <=> (ret'.genmcTid # child \/ ret'.genmcTid > size)
        /\ status' = "running" =>
            /\ Len(globalInstructions') = IF child < size THEN size ELSE size + 1
            /\ globalInstructions'[child + 1] = Action("Load", child, 0)
            /\ \A u \in ThreadIds :
                (Registered(globalInstructions, u) /\ u # child) =>
                    globalInstructions'[u + 1] =
                        IF u = parent
                        THEN [globalInstructions[u + 1] EXCEPT !.index = @ + 1]
                        ELSE globalInstructions[u + 1]

C15_Create == [][C15_StepCreate]_vars

\* C15 witness: a parent that had advanced before has just created a child
\* that had no Action.
C15_Witness ==
    /\ ret.op = "ThreadCreate" /\ status = "running"
    /\ ret.other >= ret.psize /\ ret.pre > 0
    /\ Len(globalInstructions) = ret.psize + 1
    /\ IdxOf(globalInstructions, ret.thread) = ret.pre + 1
    /\ IdxOf(globalInstructions, ret.other) = 0

\* C16: after handleExecutionStart, from any state, the Action table holds
\* exactly one entry, for thread 0 at the initial event; a thread gets an
\* Action again only by being created again.
C16_StepExecutionStart ==
    /\ ret'.op = "ExecutionStart" =>
        /\ globalInstructions' = <<InitAction>>
        /\ \A u \in ThreadIds \ {0} : ~Registered(globalInstructions', u)
    /\ \A u \in ThreadIds :
        (~Registered(globalInstructions, u) /\ Registered(globalInstructions', u))
            => (ret'.op = "ThreadCreate" /\ ret'.other = u)

C16_ExecutionStart == [][C16_StepExecutionStart]_vars

\* C16 witness: handleExecutionStart has just emptied a table that held a
\* created thread and an advanced thread 0.
C16_Witness ==
    /\ ret.op = "ExecutionStart"
    /\ ret.psize > 1 /\ ret.pre > 0
    /\ globalInstructions = <<InitAction>>


(***************************************************************************)
(* Allocation and the Mutex Protocol.                                      *)
(***************************************************************************)
\* C17: handleMalloc with size zero, handleFree with size zero and handleFree
\* with a null address abort the run without submitting a label (and without
\* moving the thread's position); handleMalloc also aborts if the engine
\* answers address 0, so every address handleMalloc returns is non-null.
C17_AllocationContract ==
    /\ (ret.op = "Malloc" /\ ret.size = 0) =>
            (status = "aborted" /\ labels = <<>>)
    /\ (ret.op = "Free" /\ (ret.size = 0 \/ ret.addr = 0)) =>
            (status = "aborted" /\ labels = <<>>)
    /\ (ret.op \in {"Malloc", "Free"} /\ labels = <<>> /\ ret.pre >= 0) =>
            IdxOf(globalInstructions, ret.thread) = ret.pre
    /\ (ret.op = "Malloc" /\ labels # <<>> /\ labels[1].addr = 0) =>
            status = "aborted"
    /\ (ret.op = "Malloc" /\ status = "running") =>
            (ret.addr # 0 /\ Len(labels) = 1 /\ labels[1].addr = ret.addr)

\* C17 witness: the engine has just answered a nonzero-size allocation with
\* address 0 and the run is aborted.
C17_Witness ==
    /\ ret.op = "Malloc" /\ ret.size # 0
    /\ labels # <<>> /\ labels[1].kind = "Malloc" /\ labels[1].addr = 0
    /\ status = "aborted"

\* C18: when the engine resolves no value and no error for the read of a
\* Lock call, the thread's index is back at its value before the call, the
\* read label is the only label submitted (no write, no block label) and the
\* result is acquired=false without an error.
C18_LockNoValue ==
    (ret.op = "MutexLock" /\ ret.rd = "none" /\ status = "running") =>
        /\ IdxOf(globalInstructions, ret.thread) = ret.pre
        /\ Len(labels) = 1 /\ labels[1].kind = "LockCasRead"
        /\ labels[1].index = ret.pre + 1
        /\ KindsOf(labels) \cap (WriteKinds \cup BlockKinds) = {}
        /\ ~ret.acquired /\ ~ret.err

\* C18 witness: a Lock by a thread that had advanced before has just been
\* left without a value.
C18_Witness ==
    /\ ret.op = "MutexLock" /\ ret.rd = "none" /\ status = "running"
    /\ ret.pre > 0 /\ ~ret.acquired

\* C19: when the read of a Lock call observes a value, exactly one follow-up
\* label is submitted, at the next position of the same thread: a lock write
\* if and only if the observed value is 0 (result acquired=true unless the
\* store fails), otherwise a block label (result acquired=false); never
\* both, and the thread's index ends two above its value before the call.
C19_LockFollowUp ==
    (ret.op = "MutexLock" /\ ret.rd = "value" /\ status = "running") =>
        /\ Len(labels) = 2
        /\ labels[1].kind = "LockCasRead" /\ labels[1].index = ret.pre + 1
        /\ labels[2].thread = ret.thread /\ labels[2].index = ret.pre + 2
        /\ labels[2].kind =
                IF ret.obs = SVal0 THEN "LockCasWrite" ELSE "LockNotAcqBlock"
        /\ IdxOf(globalInstructions, ret.thread) = ret.pre + 2
        /\ ret.acquired <=> (ret.obs = SVal0 /\ ret.st = "ok")
        /\ ret.err <=> (ret.obs = SVal0 /\ ret.st = "error")
        /\ ret.obs # SVal0 => IsBlocked(blocked, ret.thread)

\* C19 witness: a Lock has just found the mutex held by an earlier
\* acquisition and submitted its block label.
C19_Witness ==
    /\ ret.op = "MutexLock" /\ ret.rd = "value" /\ ret.obs = SVal1
    /\ Len(labels) = 2 /\ labels[2].kind = "LockNotAcqBlock"
    /\ coMax[ret.addr].kind = "Write"

\* C20 as stated: when the engine resolves no value and reports no error for
\* the read of a TryLock call by a registered thread, the call returns
\* normally with the thread's index restored and acquired=false, no error.
C20_TryLockNoValue ==
    (ret.op = "MutexTryLock" /\ ret.rd = "none" /\ ret.pre >= 0) =>
        /\ status = "running"
        /\ IdxOf(globalInstructions, ret.thread) = ret.pre
        /\ ~ret.acquired /\ ~ret.err


(***************************************************************************)
(* The old-value setter (SpecOldVal).                                      *)
(***************************************************************************)
\* C21: supply_old_value(address, candidate) with an initialized candidate:
\* if the coherence-maximal event of the address is a non-atomic write, that
\* write's value becomes the candidate; if it is an atomic write, its value
\* is unchanged; either way the Initial-Value Table, every thread's position
\* and every other address's label are unchanged and the run goes on.
C21_StepWrite ==
    (ret'.op = "handleOldVal" /\ ret'.hasValue /\ coMax[ret'.addr].kind = "Write") =>
        LET a == ret'.addr IN
        /\ coMax'[a] = IF coMax[a].atomic THEN coMax[a]
                       ELSE [coMax[a] EXCEPT !.val = ret'.old]
        /\ \A b \in Addrs \ {a} : coMax'[b] = coMax[b]
        /\ initVals_' = initVals_
        /\ globalInstructions' = globalInstructions
        /\ status' = "running"

C21_OldValOnWrite == [][C21_StepWrite]_vars

\* C21 witness: the value of a non-atomic coherence-maximal write has just
\* been replaced by a different, initialized candidate.
C21_Witness ==
    /\ ret.op = "handleOldVal" /\ ret.hasValue /\ ret.kind = "Write"
    /\ ~coMax[ret.addr].atomic
    /\ coMax[ret.addr].val = ret.old /\ ret.exp # ret.old

\* C22 as stated: supply_old_value with an uninitialized candidate, or for an
\* address whose coherence-maximal event is neither a write nor the
\* initializing event, changes neither the Initial-Value Table nor any
\* write's value and does not abort the run.
C22_StepOriginal ==
    (ret'.op = "handleOldVal"
        /\ (~ret'.hasValue \/ coMax[ret'.addr].kind \notin {"Write", "Init"})) =>
        /\ initVals_' = initVals_
        /\ coMax' = coMax
        /\ status' = "running"

C22_Original == [][C22_StepOriginal]_vars

\* C22 amended: supply_old_value for an address whose coherence-maximal
\* event is a write or the initializing event, with an uninitialized
\* candidate, changes neither the Initial-Value Table nor any write's value
\* and does not abort; for an address whose coherence-maximal event is of
\* any other kind it aborts the run (invalid label), whatever the candidate,
\* again changing neither.
C22_StepAmended ==
    ret'.op = "handleOldVal" =>
        /\ (~ret'.hasValue /\ coMax[ret'.addr].kind \in {"Write", "Init"}) =>
            /\ initVals_' = initVals_
            /\ coMax' = coMax
            /\ status' = "running"
        /\ coMax[ret'.addr].kind \notin {"Write", "Init"} =>
            /\ initVals_' = initVals_
            /\ coMax' = coMax
            /\ status' = "aborted"

C22_Amended == [][C22_StepAmended]_vars

\* C22 witness: the setter has just met a coherence-maximal label that is
\* neither a write nor the initializing one, and the run is aborted.
C22_Witness ==
    /\ ret.op = "handleOldVal" /\ ret.kind = "Other"
    /\ status = "aborted"


(***************************************************************************)
(* Annotation Table and mutex initial values (SpecMutexOps).               *)
(***************************************************************************)
Annotated(an, a) == an[a] # NoAnnot

\* ids are handed out in order, one per annotated address
C23_DistinctIds ==
    /\ \A a, b \in Addrs :
        (Annotated(annotation_id, a) /\ Annotated(annotation_id, b) /\ a # b)
            => annotation_id[a] # annotation_id[b]
    /\ \A a \in Addrs :
        Annotated(annotation_id, a) =>
            (annotation_id[a] >= 0 /\ annotation_id[a] < annotation_id_counter)

\* an entry appears only at a Lock on its address and never changes after
C23_StepAnnotation ==
    \A a \in Addrs :
        /\ Annotated(annotation_id, a) => annotation_id'[a] = annotation_id[a]
        /\ (~Annotated(annotation_id, a) /\ Annotated(annotation_id', a)) =>
            /\ ret'.op = "MutexLock" /\ ret'.addr = a
            /\ annotation_id'[a] = annotation_id_counter
        /\ (ret'.op = "MutexLock" /\ ret'.addr = a) => Annotated(annotation_id', a)

\* C23: the Annotation Table maps each mutex address to the id assigned at
\* its first Lock call: later Lock calls on the address reuse it, distinct
\* addresses have distinct ids, and no operation (TryLock, Unlock, thread
\* creation, handleExecutionStart) removes or changes an entry.
C23_AnnotationTable == []C23_DistinctIds /\ [][C23_StepAnnotation]_vars

\* C23 witness: after two mutex addresses got their ids, a Lock has just
\* been issued again on the address annotated first.
C23_Witness ==
    /\ ret.op = "MutexLock" /\ status = "running"
    /\ annotation_id_counter = 2
    /\ annotation_id[ret.addr] = 0
    /\ \E b \in Addrs : annotation_id[b] = 1

\* C26 as stated: for an address accessed only through Lock, TryLock and
\* Unlock, the Initial-Value Table entry, if present, is the unlocked
\* sentinel 0.
C26_MutexInitValUnlocked ==
    \A a \in MutexOpsAddrs :
        initVals_[a] # NoEntry => initVals_[a] = GenmcScalar(SVal0)


(***************************************************************************)
(* Shape of the Action table and of the Initial-Value Table (Spec).        *)
(***************************************************************************)
\* the Action table is non-empty and entry i is thread i at an index >= 0
C24_Dense ==
    status # "ub" =>
        /\ Len(globalInstructions) >= 1
        /\ \A i \in DOMAIN globalInstructions :
            /\ globalInstructions[i].thread = i - 1
            /\ globalInstructions[i].index >= 0

\* no call but handleExecutionStart shrinks the table; only a Create grows
\* it, by one entry
C24_StepSize ==
    ret'.op # "ExecutionStart" =>
        /\ Len(globalInstructions') >= Len(globalInstructions)
        /\ Len(globalInstructions') <= Len(globalInstructions) + 1
        /\ Len(globalInstructions') > Len(globalInstructions)
                => ret'.op = "ThreadCreate"

\* C24: in every state reached by calls of the inbound interface (of defined
\* behaviour) the Action table is dense and self-consistent: non-empty, entry i for thread i with an index
\* >= 0; between two handleExecutionStart calls it never shrinks and grows by
\* at most one entry per Create.
C24_ActionTable == []C24_Dense /\ [][C24_StepSize]_vars

\* C24 witness: the table holds two threads that have both advanced.
C24_Witness ==
    /\ status = "running"
    /\ Len(globalInstructions) = 2
    /\ IdxOf(globalInstructions, 0) > 0 /\ IdxOf(globalInstructions, 1) > 0

\* C25: every entry of the Initial-Value Table is flagged initialized, so the
\* initial-value getter answers the recorded value for an address with an
\* entry (never through its "recorded but uninitialized" branch) and the
\* "none recorded" placeholder for an address without one.
C25_EntriesInitialized ==
    \A a \in Addrs :
        IF initVals_[a] # NoEntry
        THEN /\ initVals_[a].is_init
             /\ initValGetter(initVals_, a) = initVals_[a].value
        ELSE initValGetter(initVals_, a) = NoInitValPlaceholder

\* C25 witness: the last call supplied an uninitialized candidate for an
\* address whose coherence-maximal event is the initializing one, and the
\* table has no entry for it.
C25_Witness ==
    /\ status = "running"
    /\ \E i \in DOMAIN ret.ov :
        /\ ret.ov[i].coKind = "Init" /\ ~ret.ov[i].value.is_init
        /\ initVals_[ret.ov[i].addr] = NoEntry

====
